---- MODULE Spec2Model ----
(***************************************************************************)
(* Catharsis API (src/run.py): a JSON REST facade over two MongoDB         *)
(* collections, "playlists" and "clips".  Every route handler is wrapped   *)
(* by make_dry, which turns the path id into an ObjectId before the        *)
(* handler runs and cleans and serialises what the handler returns.        *)
(*                                                                         *)
(* One request is one synchronous call chain that makes at most one store  *)
(* call, so a request is one step of the model.                            *)
(***************************************************************************)
EXTENDS Integers, Sequences, FiniteSets, TLC

VARIABLES
    DB_NAME,        \* run.py:74  os.getenv('CATHARSIS_DB_NAME', None)
    DB_URL,         \* run.py:75  os.getenv('CATHARSIS_DB_URL', None)
    store,          \* the database: collection name -> sequence of documents
    next_oid,       \* the ObjectId generator of the driver (insert without _id)
    open_requests,  \* start_request() calls of the last request's MongoClient
                    \* that no end_request() has matched
    request,        \* the request handled last: handler, path id, JSON body
    request_status, \* bottle.request.status, the attribute json_error assigns
    store_calls,    \* the store methods called while handling the last request
    response        \* the HTTP response sent for the last request

vars == <<DB_NAME, DB_URL, store, next_oid, open_requests, request,
          request_status, store_calls, response>>

-----------------------------------------------------------------------------
(* Bounds of the model.                                                    *)

\* how many ObjectIds the driver generates in one behaviour
MaxOid == 1

-----------------------------------------------------------------------------
(* Python values.  A value carries its type as the one field of a record:  *)
(* str, int, ObjectId, dict (a function from keys to values), list (a      *)
(* sequence of values) and None.                                           *)

Str(s) == [str |-> s]
Num(i) == [int |-> i]
Oid(n) == [oid |-> n]
Dict(f) == [dict |-> f]
List(s) == [list |-> s]
None == [none |-> "None"]

IsStr(v) == DOMAIN v = {"str"}
IsOid(v) == DOMAIN v = {"oid"}
IsDict(v) == DOMAIN v = {"dict"}
IsList(v) == DOMAIN v = {"list"}

\* the dict d without key k (del d[k])
Del(d, k) == [x \in (DOMAIN d) \ {k} |-> d[x]]

\* the dict d with d[k] = v (assignment to a key, new or not)
Put(d, k, v) == [x \in (DOMAIN d) \cup {k} |-> IF x = k THEN v ELSE d[x]]

\* Python truth of a value: None, an empty dict, an empty list and an empty
\* string are false
Truthy(v) ==
    IF v = None THEN FALSE
    ELSE IF IsDict(v) THEN DOMAIN v.dict # {}
    ELSE IF IsList(v) THEN Len(v.list) > 0
    ELSE IF IsStr(v) THEN v.str # ""
    ELSE TRUE

-----------------------------------------------------------------------------
(* ObjectId (bson.objectid).  An ObjectId is 12 bytes; its string form is  *)
(* 24 hexadecimal digits.  The model's ObjectIds differ in the last digit. *)

HexDigit == <<"1", "2", "3", "4", "5", "6", "7", "8", "9",
              "a", "b", "c", "d", "e", "f">>

\* the ObjectIds of the model
Oids == 1..MaxOid

\* str(ObjectId): the 24 hexadecimal digits
OidStr(n) == "5160d25fe14fe32a8d00065" \o HexDigit[n]

\* ObjectId.is_valid for a string: 24 hexadecimal digits
IsHex24(s) == \E n \in DOMAIN HexDigit : OidStr(n) = s

\* the ObjectId a 24-digit string names
ParseHex24(s) == CHOOSE n \in DOMAIN HexDigit : OidStr(n) = s

\* ObjectId(v) raises InvalidId (TypeError for a value that is no string)
\* unless v is an ObjectId or a string of 24 hexadecimal digits
ObjectIdRaises(v) ==
    ~ (IsOid(v) \/ (IsStr(v) /\ IsHex24(v.str)))

\* ObjectId(v) where it does not raise
ObjectId(v) == IF IsOid(v) THEN v ELSE Oid(ParseHex24(v.str))

\* str(v) for an ObjectId or a string
PyStr(v) == IF IsOid(v) THEN OidStr(v.oid) ELSE v.str

-----------------------------------------------------------------------------
(* The store (pymongo Collection).  A collection is the sequence of its    *)
(* documents in natural order; a document is a function from keys to       *)
(* values that has the key _id.  _id is unique within a collection.        *)

playlist_collection_name == "playlists"
clip_collection_name == "clips"
CollectionNames == {playlist_collection_name, clip_collection_name}

\* the positions of the documents of coll that match {"_id": id}
Matching(coll, id) == {i \in DOMAIN coll : coll[i]["_id"] = id}

\* s without the elements at the positions in drop
RECURSIVE Without(_, _)
Without(s, drop) ==
    IF s = <<>> THEN <<>>
    ELSE LET rest == Without(Tail(s), {i - 1 : i \in drop \ {1}})
         IN IF 1 \in drop THEN rest ELSE <<Head(s)>> \o rest

\* collection.find(): every document
find(coll) == List([i \in DOMAIN coll |-> Dict(coll[i])])

\* collection.find_one({"_id": id}): the first match, or None
find_one(coll, id) ==
    IF Matching(coll, id) = {} THEN None
    ELSE Dict(coll[CHOOSE i \in Matching(coll, id) :
                     \A j \in Matching(coll, id) : i <= j])

\* collection.insert(doc): a document without _id gets a fresh ObjectId;
\* a document whose _id is already in the collection raises
\* DuplicateKeyError.  [raised, coll, next_oid]
insert(coll, doc, oid) ==
    LET new == IF "_id" \in DOMAIN doc THEN doc ELSE Put(doc, "_id", Oid(oid))
    IN IF Matching(coll, new["_id"]) # {}
       THEN [raised |-> "E11000 duplicate key error", coll |-> coll,
             next_oid |-> oid]
       ELSE [raised |-> "", coll |-> Append(coll, new),
             next_oid |-> IF "_id" \in DOMAIN doc THEN oid ELSE oid + 1]

\* update that merges doc into the match ({"$set": doc}) and does not
\* replace it
update_merge(coll, id, doc) ==
    IF Matching(coll, id) = {} THEN [raised |-> "", coll |-> coll]
    ELSE IF "_id" \in DOMAIN doc /\ doc["_id"] # id
    THEN [raised |-> "cannot change _id of a document", coll |-> coll]
    ELSE LET i == CHOOSE k \in Matching(coll, id) :
                      \A j \in Matching(coll, id) : k <= j
         IN [raised |-> "",
             coll |-> [coll EXCEPT ![i] =
                          [k \in (DOMAIN coll[i]) \cup (DOMAIN doc) |->
                              IF k \in DOMAIN doc THEN doc[k] ELSE coll[i][k]]]]

\* update with upsert=True: without a match, doc is inserted under that _id
update_upsert(coll, id, doc) ==
    IF Matching(coll, id) = {}
    THEN [raised |-> "", coll |-> Append(coll, Put(doc, "_id", id))]
    ELSE IF "_id" \in DOMAIN doc /\ doc["_id"] # id
    THEN [raised |-> "cannot change _id of a document", coll |-> coll]
    ELSE LET i == CHOOSE k \in Matching(coll, id) :
                      \A j \in Matching(coll, id) : k <= j
         IN [raised |-> "", coll |-> [coll EXCEPT ![i] = Put(doc, "_id", id)]]

\* collection.update({"_id": id}, doc): doc holds no $-operators, so the
\* first match is replaced by doc and keeps its _id; a doc with another _id
\* raises OperationFailure; without a match nothing happens (no upsert).
update(coll, id, doc) ==
    IF Matching(coll, id) = {} THEN [raised |-> "", coll |-> coll]
    ELSE IF "_id" \in DOMAIN doc /\ doc["_id"] # id
    THEN [raised |-> "cannot change _id of a document", coll |-> coll]
    ELSE LET i == CHOOSE k \in Matching(coll, id) :
                      \A j \in Matching(coll, id) : k <= j
         IN [raised |-> "", coll |-> [coll EXCEPT ![i] = Put(doc, "_id", id)]]

\* remove({}) and not remove({"_id": id}): every document is removed
remove_all(coll, id) == [raised |-> "", coll |-> <<>>]

\* collection.remove({"_id": id}): every match is removed
remove(coll, id) == [raised |-> "", coll |-> Without(coll, Matching(coll, id))]

-----------------------------------------------------------------------------
(* mongo(collection_name), the context manager of run.py:105-120.          *)

\* line 113: the configuration check that raises DatabaseError
mongo_raises == (~ Truthy(DB_NAME)) \/ (~ Truthy(DB_URL))

\* Every call makes a MongoClient of its own (line 116), which no request
\* is using yet.  start_request() runs before the yield and end_request()
\* after it: the code after the yield runs only when the with-body ends
\* without an exception.  body_raised is "" or the text of the exception the
\* with-body raised; the value is the client's count of open requests.
start_request(n) == n + 1
end_request(n) == n - 1
mongo(body_raised) ==
    IF body_raised = ""
    THEN end_request(start_request(0))
    ELSE start_request(0)

\* the text of the DatabaseError of line 114
DatabaseErrorMsg ==
    "Database information was not found in the environment variables."

-----------------------------------------------------------------------------
(* json_error (run.py:181-186): the error envelope it returns, and the     *)
(* text it assigns to bottle.request.status.                               *)

json_error(code, text) ==
    Dict([errors |-> List(<<Dict([code |-> Num(code), message |-> Str(text)])>>)])

json_error_status(code, text) == ToString(code) \o " " \o text

-----------------------------------------------------------------------------
(* clean_data (run.py:124-140).  It rewrites its argument in place; the    *)
(* model returns the rewritten value.                                      *)

\* line 134: ObjectId(obj["_id"]) raises for an _id that is no ObjectId
RECURSIVE clean_data_raises(_)
clean_data_raises(obj) ==
    IF IsDict(obj)
    THEN "_id" \in DOMAIN obj.dict /\ ObjectIdRaises(obj.dict["_id"])
    ELSE IF IsList(obj)
    THEN \E i \in DOMAIN obj.list : clean_data_raises(obj.list[i])
    ELSE FALSE

\* clean_data with line 135 (del obj["_id"]) left out
RECURSIVE clean_data_keeps_id(_)
clean_data_keeps_id(obj) ==
    IF IsDict(obj)
    THEN IF "_id" \in DOMAIN obj.dict
         THEN Dict(Put(obj.dict, "id", Str(PyStr(ObjectId(obj.dict["_id"])))))
         ELSE obj
    ELSE IF IsList(obj)
    THEN List([i \in DOMAIN obj.list |-> clean_data_keeps_id(obj.list[i])])
    ELSE obj

RECURSIVE clean_data(_)
clean_data(obj) ==
    IF IsDict(obj)
    THEN IF "_id" \in DOMAIN obj.dict
         THEN Dict(Del(Put(obj.dict, "id",
                           Str(PyStr(ObjectId(obj.dict["_id"])))), "_id"))
         ELSE obj
    ELSE IF IsList(obj)
    THEN List([i \in DOMAIN obj.list |-> clean_data(obj.list[i])])
    ELSE obj

\* json.dumps(data, default=bson.json_util.default): the JSON value written.
\* A str, int, dict or list is written as it is; an ObjectId left in the
\* data is written as {"$oid": <24 digits>}; None is written as null.
RECURSIVE json_dumps(_)
json_dumps(v) ==
    IF IsDict(v) THEN Dict([k \in DOMAIN v.dict |-> json_dumps(v.dict[k])])
    ELSE IF IsList(v) THEN List([i \in DOMAIN v.list |-> json_dumps(v.list[i])])
    ELSE IF IsOid(v) THEN Dict([k \in {"$oid"} |-> Str(OidStr(v.oid))])
    ELSE v

-----------------------------------------------------------------------------
(* The route handlers (run.py:203-381).  The handlers of the two           *)
(* collections are the same code with another collection name and other    *)
(* message texts.  What a handler does is a record: the value it returns   *)
(* (data) or the text of the exception that leaves it (raised), and the    *)
(* store, ObjectId generator, open connection scopes, request.status and   *)
(* response content type it leaves behind, with the store methods called.  *)

Noun(c) == IF c = playlist_collection_name THEN "playlist" ELSE "clip"
CapNoun(c) == IF c = playlist_collection_name THEN "Playlist" ELSE "Clip"

NoResourcesMsg(c) == "Ok. You have no " \o c \o ". Get to work."
NotFoundMsg(c, id) == "Can't find " \o Noun(c) \o " with id " \o PyStr(id)
NoDataMsg == "Oops. No data received."
MissingNameMsg == "Oops. The required key \"name\" is missing from the data."
CreatedMsg(c) == "Way to go! New " \o Noun(c) \o " has been created."
UpdatedMsg(c) == "You did it! " \o CapNoun(c) \o " has been updated."
DeletedMsg(c) == "Ok. That " \o Noun(c) \o " is gone. Outta here!"

StatusObject(text) == Dict([status |-> Num(200), content |-> Str(text)])

\* the handler returns data, having changed nothing and called nothing
Return(data) ==
    [data |-> data, raised |-> "", store |-> store, next_oid |-> next_oid,
     open_requests |-> 0, request_status |-> "",
     content_type |-> "text/html; charset=UTF-8", store_calls |-> <<>>]

\* the handler returns json_error(code, text)
ReturnError(code, text, r) ==
    [r EXCEPT !.data = json_error(code, text), !.raised = "",
              !.request_status = json_error_status(code, text),
              !.content_type = "application/json"]

\* an exception leaves the handler
Raise(text, r) == [r EXCEPT !.data = None, !.raised = text]

\* list_playlists, list_clips
list_resource(c) ==
    IF mongo_raises THEN Raise(DatabaseErrorMsg, Return(None))
    ELSE LET response_dict == find(store[c])
             r == [Return(response_dict) EXCEPT !.store_calls = <<"find">>,
                                                !.open_requests = mongo("")]
         IN IF ~ Truthy(response_dict)
            THEN ReturnError(404, NoResourcesMsg(c), r)
            ELSE r

\* show_playlist, show_clip
show_resource(c, id) ==
    IF mongo_raises THEN Raise(DatabaseErrorMsg, Return(None))
    ELSE LET response_dict == find_one(store[c], id)
             r == [Return(response_dict) EXCEPT !.store_calls = <<"find_one">>,
                                                !.open_requests = mongo("")]
         IN IF ~ Truthy(response_dict)
            THEN ReturnError(404, NotFoundMsg(c, id), r)
            ELSE r

\* create that also refuses a name that is empty
create_resource_nonempty_name(c, json) ==
    IF ~ Truthy(json) THEN ReturnError(400, NoDataMsg, Return(None))
    ELSE IF "name" \notin DOMAIN json.dict \/ ~ Truthy(json.dict["name"])
    THEN ReturnError(400, MissingNameMsg, Return(None))
    ELSE IF mongo_raises THEN ReturnError(400, DatabaseErrorMsg, Return(None))
    ELSE LET w == insert(store[c], json.dict, next_oid)
             r == [Return(StatusObject(CreatedMsg(c))) EXCEPT
                      !.store = [store EXCEPT ![c] = w.coll],
                      !.next_oid = w.next_oid,
                      !.store_calls = <<"insert">>,
                      !.open_requests = mongo(w.raised)]
         IN IF w.raised = "" THEN r ELSE ReturnError(400, w.raised, r)

\* create that inserts the name alone, not the whole body
create_resource_name_only(c, json) ==
    IF ~ Truthy(json) THEN ReturnError(400, NoDataMsg, Return(None))
    ELSE IF "name" \notin DOMAIN json.dict
    THEN ReturnError(400, MissingNameMsg, Return(None))
    ELSE IF mongo_raises THEN ReturnError(400, DatabaseErrorMsg, Return(None))
    ELSE LET w == insert(store[c], [name |-> json.dict["name"]], next_oid)
             r == [Return(StatusObject(CreatedMsg(c))) EXCEPT
                      !.store = [store EXCEPT ![c] = w.coll],
                      !.next_oid = w.next_oid,
                      !.store_calls = <<"insert">>,
                      !.open_requests = mongo(w.raised)]
         IN IF w.raised = "" THEN r ELSE ReturnError(400, w.raised, r)

\* playlists_create, clips_create
create_resource(c, json) ==
    IF ~ Truthy(json) THEN ReturnError(400, NoDataMsg, Return(None))
    ELSE IF "name" \notin DOMAIN json.dict
    THEN ReturnError(400, MissingNameMsg, Return(None))
    ELSE IF mongo_raises THEN ReturnError(400, DatabaseErrorMsg, Return(None))
    ELSE LET w == insert(store[c], json.dict, next_oid)
             r == [Return(StatusObject(CreatedMsg(c))) EXCEPT
                      !.store = [store EXCEPT ![c] = w.coll],
                      !.next_oid = w.next_oid,
                      !.store_calls = <<"insert">>,
                      !.open_requests = mongo(w.raised)]
         IN IF w.raised = "" THEN r ELSE ReturnError(400, w.raised, r)

\* update without the test for the key name (lines 262-263)
update_resource_unchecked(c, id, json) ==
    IF ~ Truthy(json) THEN ReturnError(400, NoDataMsg, Return(None))
    ELSE IF mongo_raises THEN ReturnError(400, DatabaseErrorMsg, Return(None))
    ELSE LET w == update(store[c], id, json.dict)
             r == [Return(StatusObject(UpdatedMsg(c))) EXCEPT
                      !.store = [store EXCEPT ![c] = w.coll],
                      !.store_calls = <<"update">>,
                      !.open_requests = mongo(w.raised)]
         IN IF w.raised = "" THEN r ELSE ReturnError(400, w.raised, r)

\* update_playlist, update_clip
update_resource(c, id, json) ==
    IF ~ Truthy(json) THEN ReturnError(400, NoDataMsg, Return(None))
    ELSE IF "name" \notin DOMAIN json.dict
    THEN ReturnError(400, MissingNameMsg, Return(None))
    ELSE IF mongo_raises THEN ReturnError(400, DatabaseErrorMsg, Return(None))
    ELSE LET w == update(store[c], id, json.dict)
             r == [Return(StatusObject(UpdatedMsg(c))) EXCEPT
                      !.store = [store EXCEPT ![c] = w.coll],
                      !.store_calls = <<"update">>,
                      !.open_requests = mongo(w.raised)]
         IN IF w.raised = "" THEN r ELSE ReturnError(400, w.raised, r)

\* delete_playlist, delete_clip
delete_resource(c, id) ==
    IF mongo_raises THEN ReturnError(400, DatabaseErrorMsg, Return(None))
    ELSE LET w == remove(store[c], id)
             r == [Return(StatusObject(DeletedMsg(c))) EXCEPT
                      !.store = [store EXCEPT ![c] = w.coll],
                      !.store_calls = <<"remove">>,
                      !.open_requests = mongo(w.raised)]
         IN IF w.raised = "" THEN r ELSE ReturnError(400, w.raised, r)

-----------------------------------------------------------------------------
(* make_dry (run.py:144-177) and the framework around it.                  *)

\* fn(*args, **kwargs): the call of the wrapped handler.  The handler of
\* collection c named fn is called with the keyword arguments kw, and reads
\* the body json from bottle.request.json
fn(name, c, kw, json) ==
    CASE name = "list" -> list_resource(c)
      [] name = "show" -> show_resource(c, kw["id"])
      [] name = "create" -> create_resource(c, json)
      [] name = "update" -> update_resource(c, kw["id"], json)
      [] name = "delete" -> delete_resource(c, kw["id"])

\* wrapper(*args, **kwargs) around the handler of collection c named name
make_dry(name, c, kwargs, json) ==
    IF "id" \in DOMAIN kwargs /\ ObjectIdRaises(kwargs["id"])
    THEN Raise("InvalidId", Return(None))
    ELSE LET kw == IF "id" \in DOMAIN kwargs
                   THEN Put(kwargs, "id", ObjectId(kwargs["id"]))
                   ELSE kwargs
             r == fn(name, c, kw, json)
         IN IF r.raised # "" THEN r
            ELSE IF clean_data_raises(r.data) THEN Raise("InvalidId", r)
            ELSE [r EXCEPT !.data = json_dumps(clean_data(r.data)),
                           !.content_type = "application/json"]

\* error500 (run.py:414-416), the handler of an exception nothing caught
error500(r) ==
    ReturnError(500, "Internal Server Error: " \o r.raised, r)

\* bottle: the status of the response is 200 unless the code assigns
\* response.status, which it never does, or an exception reaches the
\* framework, which answers 500 through error500
bottle_response(r) ==
    IF r.raised # ""
    THEN [status |-> 500, content_type |-> error500(r).content_type,
          body |-> error500(r).data]
    ELSE [status |-> 200, content_type |-> r.content_type, body |-> r.data]

\* the named handlers, as the routes call them
list_playlists == make_dry("list", playlist_collection_name, <<>>, None)
show_playlist(id) ==
    make_dry("show", playlist_collection_name, [id |-> Str(id)], None)
playlists_create(json) ==
    make_dry("create", playlist_collection_name, <<>>, json)
update_playlist(id, json) ==
    make_dry("update", playlist_collection_name, [id |-> Str(id)], json)
delete_playlist(id) ==
    make_dry("delete", playlist_collection_name, [id |-> Str(id)], None)
list_clips == make_dry("list", clip_collection_name, <<>>, None)
show_clip(id) == make_dry("show", clip_collection_name, [id |-> Str(id)], None)
clips_create(json) == make_dry("create", clip_collection_name, <<>>, json)
update_clip(id, json) ==
    make_dry("update", clip_collection_name, [id |-> Str(id)], json)
delete_clip(id) ==
    make_dry("delete", clip_collection_name, [id |-> Str(id)], None)

-----------------------------------------------------------------------------
(* Requests.                                                               *)

\* the id segment of a path: the string of an ObjectId, or another string
PathIds == {OidStr(n) : n \in Oids} \cup {"not-a-valid-id"}

\* bottle.request.json: None without a JSON body, else the decoded object
Bodies ==
    { None,
      Dict(<<>>),
      Dict([qty |-> Num(0)]),
      Dict([name |-> Str("")]),
      Dict([name |-> Str("fight scenes"), qty |-> Num(0)]),
      Dict([name |-> Str("test9pm"), id |-> Str("mine")]),
      Dict("name" :> Str("test9pm") @@ "_id" :> Str("abc")) }

\* one request: the outcome of the wrapped handler becomes the next state
Handle(name, c, id, json, outcome) ==
    \E r \in {outcome} : \E sent \in {IF r.raised # "" THEN error500(r) ELSE r} :
        /\ r.next_oid <= MaxOid + 1
        /\ store' = r.store
        /\ next_oid' = r.next_oid
        /\ open_requests' = r.open_requests
        /\ store_calls' = r.store_calls
        /\ request_status' = sent.request_status
        /\ response' = bottle_response(r)
        /\ request' = [handler |-> name, collection |-> c, id |-> id,
                       json |-> json]
        /\ UNCHANGED <<DB_NAME, DB_URL>>

\* GET /playlists
GetPlaylists ==
    Handle("list", playlist_collection_name, "", None, list_playlists)

\* GET /playlists/<id>
GetPlaylist ==
    \E id \in PathIds :
        Handle("show", playlist_collection_name, id, None, show_playlist(id))

\* POST /playlists
PostPlaylists ==
    \E json \in Bodies :
        Handle("create", playlist_collection_name, "", json,
               playlists_create(json))

\* PUT /playlists/<id>, POST /playlists/<id>/update
PutPlaylist ==
    \E id \in PathIds, json \in Bodies :
        Handle("update", playlist_collection_name, id, json,
               update_playlist(id, json))

\* DELETE /playlists/<id>, POST /playlists/<id>/delete
DeletePlaylist ==
    \E id \in PathIds :
        Handle("delete", playlist_collection_name, id, None, delete_playlist(id))

\* GET /clips
GetClips == Handle("list", clip_collection_name, "", None, list_clips)

\* GET /clips/<id>
GetClip ==
    \E id \in PathIds :
        Handle("show", clip_collection_name, id, None, show_clip(id))

\* POST /clips
PostClips ==
    \E json \in Bodies :
        Handle("create", clip_collection_name, "", json, clips_create(json))

\* PUT /clips/<id>, POST /clips/<id>/update
PutClip ==
    \E id \in PathIds, json \in Bodies :
        Handle("update", clip_collection_name, id, json, update_clip(id, json))

\* DELETE /clips/<id>, POST /clips/<id>/delete
DeleteClip ==
    \E id \in PathIds :
        Handle("delete", clip_collection_name, id, None, delete_clip(id))

\* the process has started with its environment set, both collections are
\* empty and no request has been handled
Init ==
    /\ DB_NAME = Str("catharsis")
    /\ DB_URL = Str("mongodb://localhost/")
    /\ store = [c \in CollectionNames |-> <<>>]
    /\ next_oid = 1
    /\ open_requests = 0
    /\ request = [handler |-> "", collection |-> "", id |-> "", json |-> None]
    /\ request_status = ""
    /\ store_calls = <<>>
    /\ response = [status |-> 200, content_type |-> "", body |-> None]

Next ==
    \/ GetPlaylists
    \/ GetPlaylist
    \/ PostPlaylists
    \/ PutPlaylist
    \/ DeletePlaylist
    \/ GetClips
    \/ GetClip
    \/ PostClips
    \/ PutClip
    \/ DeleteClip

Spec == Init /\ [][Next]_vars

\* the process has started without CATHARSIS_DB_NAME, without
\* CATHARSIS_DB_URL or without both: os.getenv(..., None) gave None
InitNoEnv ==
    /\ DB_NAME \in {None, Str("catharsis")}
    /\ DB_URL \in {None, Str("mongodb://localhost/")}
    /\ DB_NAME = None \/ DB_URL = None
    /\ store = [c \in CollectionNames |-> <<>>]
    /\ next_oid = 1
    /\ open_requests = 0
    /\ request = [handler |-> "", collection |-> "", id |-> "", json |-> None]
    /\ request_status = ""
    /\ store_calls = <<>>
    /\ response = [status |-> 200, content_type |-> "", body |-> None]

SpecNoEnv == InitNoEnv /\ [][Next]_vars

-----------------------------------------------------------------------------
(* What the claims speak of.                                               *)

\* the body is the error envelope {errors: [{code, message}]}
IsErrorEnvelope(body) ==
    /\ IsDict(body)
    /\ DOMAIN body.dict = {"errors"}
    /\ IsList(body.dict["errors"])
    /\ Len(body.dict["errors"].list) = 1
    /\ IsDict(body.dict["errors"].list[1])
    /\ DOMAIN body.dict["errors"].list[1].dict = {"code", "message"}

EnvelopeCode(body) == body.dict["errors"].list[1].dict["code"].int

\* the last request went to a handler that takes the path parameter id
TakesId == request.handler \in {"show", "update", "delete"}

\* the id of the last request is no well-formed store identifier
MalformedId == TakesId /\ ~ (\E n \in 1..15 : request.id = OidStr(n))

\* the body of the last request is absent or empty, or lacks the key name
BodyLacksName ==
    \/ request.json = None
    \/ request.json = Dict(<<>>)
    \/ IsDict(request.json) /\ "name" \notin DOMAIN request.json.dict

\* the last request reached its handler: it takes no id, or a well-formed one
HandlerRan == request.handler # "" /\ ~ MalformedId

\* C1: a request with a malformed id to a handler that takes an id (show,
\* update, delete of playlists and clips) ends in a 400 or 404 error envelope,
\* never in an uncaught failure answered 500.
C1_MalformedIdIsClientError ==
    MalformedId =>
        /\ IsErrorEnvelope(response.body)
        /\ EnvelopeCode(response.body) \in {400, 404}
        /\ response.status # 500

\* C2: a request with a malformed id, and a create or update whose body is
\* absent, empty or without the key name, calls no store method and leaves
\* both collections as they were.
C2_ErrorsBeforeStore ==
    [][ (MalformedId' \/ (request'.handler \in {"create", "update"}
                          /\ BodyLacksName'))
        => (store_calls' = <<>> /\ store' = store) ]_vars

\* C2's case: an update with a valid body and a malformed id, on a collection
\* that holds a document, has called no store method
C2_Witness ==
    /\ request.handler = "update"
    /\ MalformedId
    /\ ~ BodyLacksName
    /\ store[request.collection] # <<>>
    /\ store_calls = <<>>

\* the body of the last request has the key name with the empty string
NameIsEmpty ==
    /\ IsDict(request.json)
    /\ "name" \in DOMAIN request.json.dict
    /\ request.json.dict["name"] = Str("")

\* C3 as the specification states it: a create or update whose name is
\* present but empty is answered with a client error envelope and causes no
\* store insert or update.
C3_EmptyNameRejected ==
    (request.handler \in {"create", "update"} /\ HandlerRan /\ NameIsEmpty) =>
        /\ IsErrorEnvelope(response.body)
        /\ EnvelopeCode(response.body) \in {400, 404}
        /\ store_calls = <<>>

\* C3, amended: create and update require the key name to be present, not
\* its value to be non-empty.  When the handler runs, a body that is absent,
\* empty or without name is answered with the 400 envelope and no store
\* call; a body whose name is the empty string passes the validation and is
\* handed to the store's insert or update.
C3_NamePresenceRequired ==
    (request.handler \in {"create", "update"} /\ HandlerRan) =>
        /\ BodyLacksName =>
              /\ IsErrorEnvelope(response.body)
              /\ EnvelopeCode(response.body) = 400
              /\ store_calls = <<>>
        /\ NameIsEmpty =>
              /\ store_calls = <<IF request.handler = "create" THEN "insert"
                                 ELSE "update">>
              /\ (request.handler = "create" /\ "_id" \notin DOMAIN request.json.dict)
                    => \E i \in DOMAIN store[request.collection] :
                           store[request.collection][i]["name"] = Str("")

\* C3's case: a create with the empty name was answered with the status
\* object, and the collection holds the document with the empty name
C3_Witness ==
    /\ request.handler = "create"
    /\ NameIsEmpty
    /\ IsDict(response.body)
    /\ "status" \in DOMAIN response.body.dict
    /\ \E i \in DOMAIN store[request.collection] :
           store[request.collection][i]["name"] = Str("")

\* doc is the public form of the stored document: the same keys and values,
\* but with id, the 24 digits of the stored ObjectId, in the place of _id
IsPublicFormOf(doc, stored) ==
    /\ IsDict(doc)
    /\ "_id" \notin DOMAIN doc.dict
    /\ "id" \in DOMAIN doc.dict
    /\ \E n \in Oids : stored["_id"] = Oid(n) /\ doc.dict["id"] = Str(OidStr(n))
    /\ DOMAIN doc.dict = ((DOMAIN stored) \ {"_id"}) \cup {"id"}

\* C4: every document that list or show returns, alone or as an element of
\* the returned sequence, has the key id and not the key _id, and its id is
\* the string form of the stored _id.
C4_ReturnedDocumentsArePublic ==
    /\ (request.handler = "list" /\ IsList(response.body)) =>
          /\ Len(response.body.list) = Len(store[request.collection])
          /\ \A i \in DOMAIN response.body.list :
                 IsPublicFormOf(response.body.list[i],
                                store[request.collection][i])
    /\ (request.handler = "show" /\ ~ IsErrorEnvelope(response.body)) =>
          /\ IsDict(response.body)
          /\ response.body.dict["id"] = Str(request.id)
          /\ \E i \in DOMAIN store[request.collection] :
                 IsPublicFormOf(response.body, store[request.collection][i])

\* C4's case: list has returned a document that was created with a field of
\* its own named id
C4_Witness ==
    /\ request.handler = "list"
    /\ IsList(response.body)
    /\ \E i \in DOMAIN store[request.collection] :
           "id" \in DOMAIN store[request.collection][i]

\* what GET /<collection>/<id> answers in the current state
show_now(c, id) ==
    bottle_response(make_dry("show", c, [id |-> Str(id)], None)).body

\* the last request was a create that the store accepted, with a payload that
\* sets no _id of its own
Created ==
    /\ request.handler = "create"
    /\ response.body = StatusObject(CreatedMsg(request.collection))
    /\ "_id" \notin DOMAIN request.json.dict

\* the identifier the store gave the document created last
CreatedId ==
    PyStr(store[request.collection][Len(store[request.collection])]["_id"])

\* C5 as the specification states it: after a create with a non-empty name,
\* show by the new identifier yields a document with id, without _id, in
\* which every submitted field, one named id included, has its submitted
\* value.
C5_ShowReturnsPayload ==
    (Created /\ request.json.dict["name"] # Str("")) =>
        LET shown == show_now(request.collection, CreatedId)
        IN /\ IsDict(shown)
           /\ "_id" \notin DOMAIN shown.dict
           /\ "id" \in DOMAIN shown.dict
           /\ \A k \in DOMAIN request.json.dict :
                  shown.dict[k] = request.json.dict[k]

\* C5, amended: after a create with a non-empty name whose payload sets no
\* _id, show by the identifier the store assigned yields a document without
\* _id whose keys are the payload's and id, whose id is that identifier, and
\* in which every submitted field other than id has its submitted value; a
\* submitted field named id is replaced by the identifier.
C5_ShowReturnsPayloadButId ==
    (Created /\ request.json.dict["name"] # Str("")) =>
        LET shown == show_now(request.collection, CreatedId)
        IN /\ IsDict(shown)
           /\ DOMAIN shown.dict = (DOMAIN request.json.dict) \cup {"id"}
           /\ shown.dict["id"] = Str(CreatedId)
           /\ \E n \in Oids : CreatedId = OidStr(n)
           /\ \A k \in (DOMAIN request.json.dict) \ {"id"} :
                  shown.dict[k] = request.json.dict[k]

\* C5's case: a payload with a field named id and another field has been
\* created
C5_Witness ==
    /\ Created
    /\ request.json.dict["name"] # Str("")
    /\ "id" \in DOMAIN request.json.dict

\* the last request was an update, with a well-formed id, that the store
\* accepted
Updated ==
    /\ request.handler = "update"
    /\ ~ MalformedId
    /\ response.body = StatusObject(UpdatedMsg(request.collection))

\* the positions in coll of the documents whose _id has the string form id
WithId(coll, id) ==
    {i \in DOMAIN coll : \E n \in Oids : coll[i]["_id"] = Oid(n) /\ OidStr(n) = id}

\* after an accepted update of an id that is in the collection with body B,
\* show of that id returns the keys of B and id, every field of B other than
\* id with B's value, and id the identifier
UpdateIsShown ==
    (Updated /\ WithId(store[request.collection], request.id) # {}) =>
        LET B == request.json.dict
            shown == show_now(request.collection, request.id)
        IN /\ IsDict(shown)
           /\ DOMAIN shown.dict = (DOMAIN B) \cup {"id"}
           /\ shown.dict["id"] = Str(request.id)
           /\ \A k \in (DOMAIN B) \ {"id"} : shown.dict[k] = B[k]

\* an accepted update with body B leaves the collection as long as it was,
\* the document of that id without any field that B lacks, and every other
\* document of either collection as it was
UpdateFrame ==
    Updated' =>
        LET c == request'.collection
            B == request'.json.dict
            hit == WithId(store[c], request'.id)
        IN /\ Len(store'[c]) = Len(store[c])
           /\ \A i \in hit : DOMAIN store'[c][i] = (DOMAIN B) \cup {"_id"}
           /\ \A i \in (DOMAIN store[c]) \ hit : store'[c][i] = store[c][i]
           /\ \A o \in CollectionNames \ {c} : store'[o] = store[o]

\* C6: update is a full replace.  After an accepted update of an existing id
\* with body B, show of that id returns the fields of B and id; every field
\* of the document as it was that B lacks is gone, and every other document
\* is unchanged.
C6_UpdateReplaces == [] UpdateIsShown /\ [][UpdateFrame]_vars

\* C6's case: an accepted update of a document that is in the collection,
\* beside another document, with a body that has no field qty
C6_Witness ==
    /\ Updated
    /\ WithId(store[request.collection], request.id) # {}
    /\ Len(store[request.collection]) >= 2
    /\ "qty" \notin DOMAIN request.json.dict

\* C7: a delete with a well-formed id is answered with the same status
\* object whether or not a document matches; afterwards the collection holds
\* the documents it held but the one with that id, so that without a match
\* it is unchanged; the other collection is unchanged.
C7_DeleteRemovesThatDocument ==
    [][ (request'.handler = "delete" /\ ~ MalformedId') =>
          LET c == request'.collection
          IN /\ response'.status = 200
             /\ response'.body = StatusObject(DeletedMsg(c))
             /\ store'[c] = SelectSeq(store[c],
                    LAMBDA d : ~ (\E n \in Oids : d["_id"] = Oid(n)
                                              /\ OidStr(n) = request'.id))
             /\ (WithId(store[c], request'.id) = {} => store' = store)
             /\ \A o \in CollectionNames \ {c} : store'[o] = store[o]
      ]_vars

\* C7's case: a delete of an id has been answered with the status object
\* and the collection, which holds no document of that id, is not empty
C7_Witness ==
    /\ request.handler = "delete"
    /\ ~ MalformedId
    /\ response.body = StatusObject(DeletedMsg(request.collection))
    /\ WithId(store[request.collection], request.id) = {}
    /\ store[request.collection] # <<>>

\* C8: list on an empty collection is answered with the 404 error envelope,
\* never with an empty array; list on a collection that is not empty is
\* answered with the sequence of all its documents.
C8_ListEmptyOrAll ==
    request.handler = "list" =>
        IF store[request.collection] = <<>>
        THEN /\ IsErrorEnvelope(response.body)
             /\ EnvelopeCode(response.body) = 404
        ELSE /\ IsList(response.body)
             /\ Len(response.body.list) = Len(store[request.collection])

\* C9: the connection scope that mongo(collection_name) opens is released
\* (end_request) on every way out of the with-body, an exception thrown
\* inside it included: after a request no scope is left open.
C9_ScopeReleased == open_requests = 0

\* C10: whenever the response carries an error envelope built by
\* json_error(code, text), the status of the HTTP response is that code.
C10_StatusReflectsCode ==
    IsErrorEnvelope(response.body) =>
        response.status = EnvelopeCode(response.body)

\* the message of the envelope
EnvelopeMessage(body) == body.dict["errors"].list[1].dict["message"]

\* the last request passed the tests that come before mongo(): its id, if it
\* takes one, is well-formed, and the body of a create or update has a name
ReachedMongo ==
    /\ HandlerRan
    /\ request.handler \in {"create", "update"} => ~ BodyLacksName

\* C11: without the database name or the database URL in the environment, a
\* list, show, create, update or delete request on either collection fails
\* with the configuration error before a store connection is opened; the
\* failure is fatal for the request (it reaches the framework, which answers
\* 500) and is not turned into an ordinary handler result, and no request
\* returns a success payload.  Stated for the requests that reach mongo().
C11_ConfigurationErrorIsFatal ==
    (mongo_raises /\ ReachedMongo) =>
        /\ store_calls = <<>>
        /\ open_requests = 0
        /\ response.status = 500
        /\ IsErrorEnvelope(response.body)
        /\ EnvelopeMessage(response.body)
               = Str("Internal Server Error: " \o DatabaseErrorMsg)

\* an update with a body that has a name and a well-formed id that no
\* document of the collection has is answered 200 with the status object,
\* and leaves both collections as they were: nothing is inserted
UpdateOfMissingFrame ==
    (/\ request'.handler = "update"
     /\ ~ MalformedId'
     /\ ~ BodyLacksName'
     /\ WithId(store[request'.collection], request'.id) = {}) =>
        /\ response'.status = 200
        /\ response'.body = StatusObject(UpdatedMsg(request'.collection))
        /\ store_calls' = <<"update">>
        /\ store' = store

\* after an accepted update of an id that no document has, show of that id
\* is answered with the 404 envelope that names the id
UpdateOfMissingIsNotShown ==
    (Updated /\ WithId(store[request.collection], request.id) = {}) =>
        LET shown == show_now(request.collection, request.id)
        IN /\ IsErrorEnvelope(shown)
           /\ EnvelopeCode(shown) = 404
           /\ EnvelopeMessage(shown)
                  = Str("Can't find " \o Noun(request.collection)
                        \o " with id " \o request.id)

\* C12: an update with a valid body and a well-formed id that matches no
\* document returns the {status: 200, content: <updated message>} object,
\* inserts no document (no upsert) and leaves the collection unchanged; a
\* later show of that id still returns the 404 not-found envelope.
C12_UpdateOfMissingChangesNothing ==
    [] UpdateOfMissingIsNotShown /\ [][UpdateOfMissingFrame]_vars

\* C12's case: an update of an id that no document has was answered with
\* the status object, on a collection that holds a document
C12_Witness ==
    /\ Updated
    /\ WithId(store[request.collection], request.id) = {}
    /\ store[request.collection] # <<>>

====
